---- MODULE Spec2Model ----
(***************************************************************************)
(* Model of the AI-JARVIS orchestrator core: the request pipeline          *)
(* (JarvisOrchestrator.process_request), the plan parser (PlanningEngine), *)
(* the safety validator (SafetyValidator), the action executor             *)
(* (ActionExecutor), the WebSocket endpoint that drives the pipeline, the  *)
(* start and stop of the service (main.py lifespan), the connection        *)
(* manager with several sockets, and the result MemoryClient.search builds.*)
(*                                                                         *)
(* Strings whose content matters (validation reasons, shell commands) are  *)
(* sequences of one-character strings; values interpolated into them that  *)
(* are not themselves inspected (tool names, numbers) are single opaque    *)
(* elements.  Timestamps (datetime.now()) are left out of every record.    *)
(***************************************************************************)
EXTENDS Integers, Sequences, FiniteSets, TLC

VARIABLES
    allowed_actions,    \* SafetyValidator.allowed_actions
    sandbox_enabled,    \* SafetyValidator.sandbox_enabled
    initialized,        \* JarvisOrchestrator.initialized
    llm_session,        \* LLMClient.session
    memory_session,     \* MemoryClient.session
    action_session,     \* ActionClient.session
    active_connections, \* ConnectionManager.active_connections
    ws,                 \* state of the one WebSocket connection
    pc,                 \* position of websocket_endpoint / process_request
    request,            \* the frame handed to process_request
    memory_context,     \* local of process_request
    raw_actions,        \* the actions of the decoded LLM output, as the LLM wrote them
    plan,               \* local of process_request
    validation_result,  \* local of process_request
    idx,                \* loop index of execute_plan
    results,            \* local of execute_plan
    exec_calls,         \* actions passed to action_client.execute in this call
    exec_faults,        \* what the action-exec call did, per dispatched action
    store_calls,        \* memory_client.store calls made in this call
    search_fault,       \* what the memory search of this call did
    log,                \* the stages of this call, as they start and end
    via,                \* the caller of this call: the WebSocket or the HTTP handler
    http_reply,         \* what POST /api/actions/execute answered
    response,           \* the value process_request returned
    responses,          \* number of responses this call has produced
    call_outcome,       \* how the current process_request call ended
    served,             \* number of frames received on the connection
    inbound,            \* request ids of the requests received on the connection
    outbound,           \* request ids of the frames sent on the connection
    llm_output,         \* the text handed to parse_plan called by itself
    parsed,             \* what successive parse_plan calls returned
    checked_plan,       \* the plan handed to validate called by itself
    verdicts,           \* what successive validate calls returned
    lifecycle,          \* the steps main.py lifespan has taken, in order
    endpoints,          \* position of websocket_endpoint, per socket
    bc_pc,              \* position of ConnectionManager.broadcast
    bc_index,           \* elements the list iterator of broadcast has passed
    bc_current,         \* the connection broadcast is sending to
    dead_connections,   \* local of broadcast
    bc_sends,           \* the sends of this broadcast and how they ended
    bc_start,           \* active_connections when broadcast was called
    bc_left,            \* connections their endpoint removed during this broadcast
    search_data,        \* the decoded body the memory service answered a query with
    search_result       \* what MemoryClient.search made of it

vars == <<allowed_actions, sandbox_enabled, initialized, llm_session,
          memory_session, action_session, active_connections, ws, pc,
          request, memory_context, raw_actions, plan, validation_result, idx,
          results, exec_calls, exec_faults, store_calls, response, responses,
          call_outcome, search_fault, log, via, http_reply, served,
          inbound, outbound, llm_output, parsed, checked_plan, verdicts,
          lifecycle, endpoints, bc_pc, bc_index, bc_current, dead_connections,
          bc_sends, bc_start, bc_left, search_data, search_result>>

-----------------------------------------------------------------------------
(* Bounds of the model *)

MaxRequests == 2      \* frames received on the connection
MaxPlanLen == 2       \* actions in a plan the LLM returns
MaxElapsed == 1       \* the longest measured execution time
MaxExcess == 1        \* actions a plan can have beyond MAX_CONCURRENT_ACTIONS
MaxTextLen == 5       \* tokens of a text handed to parse_plan by itself
MaxDocs == 2          \* documents in an answer of the memory service

-----------------------------------------------------------------------------
(* core/config.py *)

MAX_CONCURRENT_ACTIONS == 5
ACTION_TIMEOUT == 30
DefaultAllowedActions == {"open_app", "search_web", "send_notification"}

\* ALLOWED_ACTIONS and ENABLE_SANDBOX come from the environment (.env)
AllowedActionsSettings ==
    {DefaultAllowedActions, DefaultAllowedActions \cup {"execute_command"}}

-----------------------------------------------------------------------------
(* Strings *)

None == "None"
EmptyStr == <<>>
EmptyMap == [k \in {} |-> None]

\* Python's `k in s` on strings
IsSubstring(k, s) ==
    \E i \in 1..(Len(s) - Len(k) + 1) : SubSeq(s, i, i + Len(k) - 1) = k

\* dict.get(key, default)
Get(d, key, default) == IF key \in DOMAIN d THEN d[key] ELSE default

Min(S) == CHOOSE m \in S : \A n \in S : m <= n

ReasonNoActions ==
    <<"N","o"," ","a","c","t","i","o","n","s"," ","t","o"," ","e","x","e","c","u","t","e">>
ReasonNotAllowed(tool) ==
    <<"A","c","t","i","o","n"," ","'">> \o <<tool>> \o
    <<"'"," ","n","o","t"," ","i","n"," ","a","l","l","o","w","e","d"," ","l","i","s","t">>
ReasonNeedsSandbox(tool) ==
    <<"C","r","i","t","i","c","a","l"," ","a","c","t","i","o","n"," ","'">> \o <<tool>> \o
    <<"'"," ","r","e","q","u","i","r","e","s"," ","s","a","n","d","b","o","x">>
ReasonDangerous(command) ==
    <<"D","a","n","g","e","r","o","u","s"," ","c","o","m","m","a","n","d"," ","d","e","t","e","c","t","e","d",":"," ">>
    \o command
ReasonTooMany(n) ==
    <<"T","o","o"," ","m","a","n","y"," ","c","o","n","c","u","r","r","e","n","t"," ","a","c","t","i","o","n","s"," ","(">>
    \o <<ToString(n)>> \o <<" ",">"," ">> \o <<ToString(MAX_CONCURRENT_ACTIONS)>> \o <<")">>
ReasonPlanValidated ==
    <<"P","l","a","n"," ","v","a","l","i","d","a","t","e","d"," ","s","u","c","c","e","s","s","f","u","l","l","y">>
ReasonActionValidated ==
    <<"A","c","t","i","o","n"," ","v","a","l","i","d","a","t","e","d">>
ReasonArgumentsValid ==
    <<"A","r","g","u","m","e","n","t","s"," ","v","a","l","i","d">>

dangerous_keywords ==
    { <<"r","m"," ","-","r","f">>, <<"d","d"," ","i","f","=">>,
      <<"m","k","f","s">>, <<">"," ","/","d","e","v">> }

-----------------------------------------------------------------------------
(* core/planning.py *)

SafetyLevels == {"low", "medium", "high", "critical"}

\* pydantic validation of one element of "actions" against class Action
\* variant of ActionValid: safety_level has no pattern
ActionValid_AnyLevel(raw) ==
    /\ "type" \in DOMAIN raw
    /\ "tool" \in DOMAIN raw

ActionValid(raw) ==
    /\ "type" \in DOMAIN raw
    /\ "tool" \in DOMAIN raw
    /\ Get(raw, "safety_level", "medium") \in SafetyLevels

\* Action(**raw).model_dump(): the declared fields only, defaults filled in;
\* keys the class does not declare (such as "critical") are dropped
Action(raw) ==
    [type         |-> raw.type,
     tool         |-> raw.tool,
     arguments    |-> Get(raw, "arguments", EmptyMap),
     safety_level |-> Get(raw, "safety_level", "medium"),
     description  |-> Get(raw, "description", EmptyStr)]

\* pydantic validation of the decoded object against class ExecutionPlan
ExecutionPlanValid(obj) ==
    /\ "intent" \in DOMAIN obj
    /\ \A i \in 1..Len(Get(obj, "actions", <<>>)) : ActionValid(obj.actions[i])

ExecutionPlan(obj) ==
    [intent                |-> obj.intent,
     actions               |-> [i \in 1..Len(Get(obj, "actions", <<>>)) |->
                                   Action(obj.actions[i])],
     requires_confirmation |-> Get(obj, "requires_confirmation", FALSE),
     estimated_duration    |-> Get(obj, "estimated_duration", 0)]

_create_error_plan(reason) ==
    [intent                |-> "error",
     actions               |-> <<>>,
     requires_confirmation |-> FALSE,
     estimated_duration    |-> 0,
     error                 |-> reason]

\* An LLM text is a sequence of tokens: one character of prose, one
\* whitespace character, the marker ```json, the marker ```, or a JSON
\* payload (some text free of backticks that json.loads decodes to the
\* payload's value, or fails to decode when the payload is "invalid").
Prose == [tok |-> "prose"]
Blank == [tok |-> "ws"]
Fence == [tok |-> "fence"]
JsonFence == [tok |-> "json_fence"]
Json(payload) == [tok |-> "payload", payload |-> payload]

\* str.find(marker, start): the first position from start on that holds one
\* of the markers toks, 0 when there is none (Python's -1)
Find(text, toks, start) ==
    LET hits == {i \in start..Len(text) : text[i].tok \in toks} IN
    IF hits = {} THEN 0 ELSE Min(hits)

\* s[:-1] of a text without markers: the last character is dropped; a
\* payload that loses its last character decodes no more
DropLastChar(s) ==
    IF s = <<>> THEN <<>>
    ELSE IF s[Len(s)].tok = "payload"
    THEN SubSeq(s, 1, Len(s) - 1) \o <<Prose>>
    ELSE SubSeq(s, 1, Len(s) - 1)

\* llm_output[start:end] for the marker at position i: up to the next ```,
\* and up to -1 when no ``` follows
FencedBody(text, i) ==
    LET end == Find(text, {"fence", "json_fence"}, i + 1) IN
    IF end # 0 THEN SubSeq(text, i + 1, end - 1)
    ELSE DropLastChar(SubSeq(text, i + 1, Len(text)))

\* str.strip()
Strip(s) ==
    LET solid == {i \in 1..Len(s) : s[i].tok # "ws"} IN
    IF solid = {} THEN <<>>
    ELSE SubSeq(s, Min(solid), CHOOSE i \in solid : \A j \in solid : j <= i)

\* json.loads: whitespace around the one JSON value is accepted, anything
\* else is a JSONDecodeError
json_loads(s) ==
    LET t == Strip(s) IN
    IF Len(t) = 1 /\ t[1].tok = "payload" THEN t[1].payload
    ELSE [json |-> "invalid"]

\* variant of ExtractJson: the first ``` of any kind opens the block
ExtractJson_FirstFence(text) ==
    IF Find(text, {"fence", "json_fence"}, 1) # 0
    THEN json_loads(Strip(FencedBody(text, Find(text, {"fence", "json_fence"}, 1))))
    ELSE json_loads(text)

\* parse_plan up to json.loads: the text between ```json and the next ```,
\* else between the first ``` and the next, else the whole text, decoded
ExtractJson(text) ==
    IF Find(text, {"json_fence"}, 1) # 0
    THEN json_loads(Strip(FencedBody(text, Find(text, {"json_fence"}, 1))))
    ELSE IF Find(text, {"fence"}, 1) # 0
    THEN json_loads(Strip(FencedBody(text, Find(text, {"fence"}, 1))))
    ELSE json_loads(text)

\* the try block of parse_plan: the plan it returns, or the exception that
\* leaves it (ExecutionPlan(**x) of a JSON value that is no object is a
\* TypeError)
ParseAttempt(text) ==
    LET decoded == ExtractJson(text) IN
    IF decoded.json = "invalid" THEN [raised |-> "JSONDecodeError"]
    ELSE IF decoded.json # "object" THEN [raised |-> "TypeError"]
    ELSE IF ~ExecutionPlanValid(decoded.value) THEN [raised |-> "ValidationError"]
    ELSE [returned |-> ExecutionPlan(decoded.value)]

\* variant of parse_plan: without the last except clause
parse_plan_NoCatchAll(text) ==
    LET attempt == ParseAttempt(text) IN
    IF "returned" \in DOMAIN attempt THEN attempt.returned
    ELSE IF attempt.raised = "JSONDecodeError"
    THEN _create_error_plan("Invalid JSON format")
    ELSE IF attempt.raised = "ValidationError"
    THEN _create_error_plan("Plan validation failed")
    ELSE attempt

parse_plan(text) ==
    LET attempt == ParseAttempt(text) IN
    IF "returned" \in DOMAIN attempt THEN attempt.returned
    ELSE IF attempt.raised = "JSONDecodeError"
    THEN _create_error_plan("Invalid JSON format")
    ELSE IF attempt.raised = "ValidationError"
    THEN _create_error_plan("Plan validation failed")
    ELSE _create_error_plan(attempt.raised)

-----------------------------------------------------------------------------
(* core/safety.py *)

_get_default_permissions ==
    [system_actions |->
        [open_app        |-> [level |-> "low", requires_confirmation |-> FALSE],
         close_app       |-> [level |-> "low", requires_confirmation |-> FALSE],
         screenshot      |-> [level |-> "low", requires_confirmation |-> FALSE],
         execute_command |-> [level |-> "critical", requires_confirmation |-> TRUE],
         file_write      |-> [level |-> "high", requires_confirmation |-> TRUE],
         file_delete     |-> [level |-> "critical", requires_confirmation |-> TRUE]],
     iot_actions |->
        [toggle_light    |-> [level |-> "low", requires_confirmation |-> FALSE],
         set_temperature |-> [level |-> "medium", requires_confirmation |-> FALSE],
         unlock_door     |-> [level |-> "critical", requires_confirmation |-> TRUE]]]

\* /prompts/permissions.yml is taken to be absent
permission_rules == _get_default_permissions

\* variant of _validate_arguments: no command is looked at
_validate_arguments_Unchecked(action) ==
    [safe |-> TRUE, reason |-> ReasonArgumentsValid]

_validate_arguments(action) ==
    LET command == Get(action.arguments, "command", EmptyStr) IN
    IF /\ action.tool = "execute_command"
       /\ \E keyword \in dangerous_keywords : IsSubstring(keyword, command)
    THEN [safe |-> FALSE, reason |-> ReasonDangerous(command)]
    ELSE [safe |-> TRUE, reason |-> ReasonArgumentsValid]

\* variant of ToolAllowed: the allow-list is not consulted
ToolAllowed_Unchecked(tool) == TRUE

ToolAllowed(tool) == tool \in allowed_actions

\* variant of _validate_action: the sandbox setting is not consulted
_validate_action_NoSandboxCheck(action) ==
    IF ~ToolAllowed(action.tool)
    THEN [safe |-> FALSE, reason |-> ReasonNotAllowed(action.tool)]
    ELSE IF ~_validate_arguments(action).safe
    THEN _validate_arguments(action)
    ELSE [safe |-> TRUE, reason |-> ReasonActionValidated]

_validate_action(action) ==
    IF ~ToolAllowed(action.tool)
    THEN [safe |-> FALSE, reason |-> ReasonNotAllowed(action.tool)]
    ELSE IF action.safety_level = "critical" /\ ~sandbox_enabled
    THEN [safe |-> FALSE, reason |-> ReasonNeedsSandbox(action.tool)]
    ELSE IF ~_validate_arguments(action).safe
    THEN _validate_arguments(action)
    ELSE [safe |-> TRUE, reason |-> ReasonActionValidated]

_action_requires_confirmation(action) ==
    IF action.safety_level = "critical" THEN TRUE
    ELSE LET rules     == Get(permission_rules, action.type, EmptyMap)
             tool_rule == Get(rules, action.tool, EmptyMap)
         IN  Get(tool_rule, "requires_confirmation", FALSE)

\* variant of TooMany: the limit is one action too high
TooMany_OffByOne(n) == n > MAX_CONCURRENT_ACTIONS + 1

TooMany(n) == n > MAX_CONCURRENT_ACTIONS

\* variant of validate: the number of actions is checked before the actions
validate_TooManyFirst(p) ==
    LET actions == p.actions
        failing == {i \in 1..Len(actions) : ~_validate_action(actions[i]).safe}
    IN
    IF actions = <<>>
    THEN [safe |-> TRUE, reason |-> ReasonNoActions]
    ELSE IF TooMany(Len(actions))
    THEN [safe |-> FALSE, reason |-> ReasonTooMany(Len(actions))]
    ELSE IF failing # {}
    THEN _validate_action(actions[Min(failing)])
    ELSE [safe |-> TRUE,
          reason |-> ReasonPlanValidated,
          requires_confirmation |->
              \E i \in 1..Len(actions) : _action_requires_confirmation(actions[i])]

validate(p) ==
    LET actions == p.actions
        failing == {i \in 1..Len(actions) : ~_validate_action(actions[i]).safe}
    IN
    IF actions = <<>>
    THEN [safe |-> TRUE, reason |-> ReasonNoActions]
    ELSE IF failing # {}
    THEN _validate_action(actions[Min(failing)])
    ELSE IF TooMany(Len(actions))
    THEN [safe |-> FALSE, reason |-> ReasonTooMany(Len(actions))]
    ELSE [safe |-> TRUE,
          reason |-> ReasonPlanValidated,
          requires_confirmation |->
              \E i \in 1..Len(actions) : _action_requires_confirmation(actions[i])]

-----------------------------------------------------------------------------
(* core/executor.py *)

\* a request on a ClientSession after its close(): aiohttp raises
\* RuntimeError, which is no aiohttp.ClientError
SessionIsClosed == "Session is closed"

\* What one call of action_client.execute under asyncio.wait_for can do:
\*   "ok"           2xx answer, its JSON body is returned
\*   "client_error" transport failure or non-2xx answer (aiohttp.ClientError)
\*   "timeout"      no answer within ACTION_TIMEOUT
\*   "exception"    any other exception raised inside the call
ExecFaults == {"ok", "client_error", "timeout", "exception"}

\* services/action_client.py, ActionClient.execute: what the call returns,
\* or [raised |-> e] when an exception leaves it
ActionClient_execute(action, fault) ==
    IF action_session = "none"
    THEN [raised |-> "Action client not connected"]
    ELSE IF action_session = "closed"
    THEN [raised |-> SessionIsClosed]
    ELSE IF fault = "ok"
    THEN [returned |-> [status |-> "success", result |-> "ok"]]
    ELSE IF fault = "client_error"
    THEN [returned |-> [status |-> "error", error |-> "ClientError"]]
    ELSE IF fault = "timeout"
    THEN [raised |-> "TimeoutError"]
    ELSE [raised |-> "Exception"]

\* variant of _execute_single_action: the outcome is named after the
\* action's type
_execute_single_action_NamedByType(action, fault, elapsed) ==
    LET call == ActionClient_execute(action, fault) IN
    IF "returned" \in DOMAIN call
    THEN [action         |-> action.type,
          status         |-> "success",
          result         |-> call.returned,
          execution_time |-> elapsed]
    ELSE IF call.raised = "TimeoutError"
    THEN [action         |-> action.type,
          status         |-> "error",
          error          |-> "Timeout",
          execution_time |-> ACTION_TIMEOUT]
    ELSE [action         |-> action.type,
          status         |-> "error",
          error          |-> call.raised,
          execution_time |-> elapsed]

_execute_single_action(action, fault, elapsed) ==
    LET call == ActionClient_execute(action, fault) IN
    IF "returned" \in DOMAIN call
    THEN [action         |-> action.tool,
          status         |-> "success",
          result         |-> call.returned,
          execution_time |-> elapsed]
    ELSE IF call.raised = "TimeoutError"
    THEN [action         |-> action.tool,
          status         |-> "error",
          error          |-> "Timeout",
          execution_time |-> ACTION_TIMEOUT]
    ELSE [action         |-> action.tool,
          status         |-> "error",
          error          |-> call.raised,
          execution_time |-> elapsed]

\* variant of StopsExecution: any failed action ends the loop
StopsExecution_OnAnyError(result) ==
    result.status = "error"

\* the test that ends the loop of execute_plan, made on the outcome record
StopsExecution(result) ==
    result.status = "error" /\ Get(result, "critical", FALSE) = TRUE

-----------------------------------------------------------------------------
(* core/orchestrator.py *)

NoValue == [none |-> TRUE]

RequestId(req) == Get(req, "id", "generated-timestamp")

\* variant of AllSuccess: any() in place of all()
AllSuccess_Any(rs) == \E i \in 1..Len(rs) : rs[i].status = "success"

AllSuccess(rs) == \A i \in 1..Len(rs) : rs[i].status = "success"

\* variant of ResponseStatus: a run in which nothing succeeded is an error
ResponseStatus_ErrorWhenNoneSucceed(rs) ==
    IF AllSuccess(rs) THEN "success"
    ELSE IF \E i \in 1..Len(rs) : rs[i].status = "success" THEN "partial"
    ELSE "error"

ResponseStatus(rs) == IF AllSuccess(rs) THEN "success" ELSE "partial"

\* variant of _generate_summary: the number of outcomes is left out
_generate_summary_NoTotal(rs) ==
    LET success_count == Cardinality({i \in 1..Len(rs) : rs[i].status = "success"})
    IN  <<"Executed ", ToString(success_count), " actions successfully.">>

_generate_summary(rs) ==
    LET action_count  == Len(rs)
        success_count == Cardinality({i \in 1..Len(rs) : rs[i].status = "success"})
    IN  <<"Executed ", ToString(success_count), "/", ToString(action_count),
          " actions successfully.">>

_generate_response(request_id, p, rs) ==
    [request_id |-> request_id,
     status     |-> ResponseStatus(rs),
     plan       |-> p,
     results    |-> rs,
     summary    |-> _generate_summary(rs)]

\* variant of Rejected: a plan that needs confirmation is not executed
Rejected_Unconfirmed(verdict) ==
    ~verdict.safe \/ Get(verdict, "requires_confirmation", FALSE)

\* process_request step 3: the test that ends the call before execution
Rejected(verdict) == ~verdict.safe

\* variant of RejectedResponse: a rejection is reported as an error
RejectedResponse_AsError(request_id, verdict) ==
    [request_id |-> request_id,
     status     |-> "error",
     reason     |-> verdict.reason]

RejectedResponse(request_id, verdict) ==
    [request_id |-> request_id,
     status     |-> "rejected",
     reason     |-> verdict.reason]

\* variant of ErrorResponse: the error response gets an id of its own
ErrorResponse_FreshId(request_id, e) ==
    [request_id |-> "generated-timestamp",
     status     |-> "error",
     error      |-> e]

ErrorResponse(request_id, e) ==
    [request_id |-> request_id,
     status     |-> "error",
     error      |-> e]

-----------------------------------------------------------------------------
(* Inputs *)

CmdRmRf == <<"r","m"," ","-","r","f"," ","/">>
CmdLs == <<"l","s">>

OpenApp ==
    [type |-> "system_action", tool |-> "open_app",
     arguments |-> [name |-> "firefox"], safety_level |-> "low"]
OpenAppCritical ==
    [type |-> "system_action", tool |-> "open_app",
     safety_level |-> "critical", critical |-> TRUE]
FormatDisk ==
    [type |-> "system_action", tool |-> "format_disk"]
RmRf ==
    [type |-> "system_action", tool |-> "execute_command",
     arguments |-> [command |-> CmdRmRf], safety_level |-> "critical"]
Ls ==
    [type |-> "system_action", tool |-> "execute_command",
     arguments |-> [command |-> CmdLs], safety_level |-> "high", critical |-> TRUE]
BadLevel ==
    [type |-> "system_action", tool |-> "open_app", safety_level |-> "extreme"]

RawActions == {OpenApp, OpenAppCritical, FormatDisk, RmRf, Ls, BadLevel}

RawActionSeqs == UNION {[1..n -> RawActions] : n \in 0..MaxPlanLen}

Payloads ==
    {[json |-> "invalid"], [json |-> "array"],
     [json |-> "object", value |-> [actions |-> <<OpenApp>>]],
     [json |-> "object", value |-> [intent |-> "noop", actions |-> <<>>]]}
    \cup {[json |-> "object", value |-> [intent |-> "do", actions |-> as]] :
              as \in RawActionSeqs}

\* the payload pl alone or inside a ```json / ``` block, with or without
\* prose before and after
Wrapped(wrap, prose, pl) ==
    LET block == IF wrap = "json_fence"
                 THEN <<JsonFence, Blank, Json(pl), Blank, Fence>>
                 ELSE IF wrap = "generic_fence"
                 THEN <<Fence, Blank, Json(pl), Blank, Fence>>
                 ELSE <<Json(pl)>>
    IN  IF prose THEN <<Prose, Blank>> \o block \o <<Blank, Prose>> ELSE block

LLMTexts ==
    {Wrapped(w, pr, pl) :
        w \in {"bare", "json_fence", "generic_fence"},
        pr \in BOOLEAN, pl \in Payloads}

\* the JSON frames a client can send
RequestFrames ==
    {[json |-> "object",
      value |-> [id |-> "req-1", type |-> "command", content |-> "open firefox",
                 context |-> [user_preferences |-> [theme |-> "dark"]]]],
     [json |-> "array"]}

\* the bodies POST /api/actions/execute accepts (class ActionRequest)
ActionRequests ==
    {[type |-> "command", content |-> "open firefox", context |-> EmptyMap]}

\* the execution times measured for an action that did not time out
ElapsedSamples == {0, MaxElapsed}

-----------------------------------------------------------------------------
(* State machine *)

\* the WebSocket clients
Sockets == {"ws1", "ws2", "ws3"}

\* an entry of log: a stage of process_request starts or ends; an end
\* carries what the collaborator did
Ev(name, fault) == [ev |-> name, fault |-> fault]

\* variant of FirstStage: the memory search is left out
FirstStage_Generate == "generate"

\* the first await of process_request (step 1, _retrieve_memory_context)
FirstStage == "search"

\* SafetyValidator.__init__ reads the settings
InitValidator ==
    /\ allowed_actions \in AllowedActionsSettings
    /\ sandbox_enabled \in BOOLEAN

\* the service before main.py lifespan has run
InitService ==
    /\ initialized = FALSE
    /\ llm_session = "none"
    /\ memory_session = "none"
    /\ action_session = "none"
    /\ active_connections = <<>>
    /\ ws = "none"
    /\ pc = "idle"
    /\ via = "none"
    /\ request = NoValue
    /\ memory_context = NoValue
    /\ raw_actions = NoValue
    /\ plan = NoValue
    /\ validation_result = NoValue
    /\ idx = 0
    /\ results = <<>>
    /\ exec_calls = <<>>
    /\ exec_faults = <<>>
    /\ store_calls = 0
    /\ search_fault = "none"
    /\ log = <<>>
    /\ response = NoValue
    /\ responses = 0
    /\ call_outcome = "none"
    /\ http_reply = NoValue
    /\ served = 0
    /\ inbound = <<>>
    /\ outbound = <<>>
    /\ lifecycle = <<"load_config">>

\* no call of parse_plan or validate by itself
InitNoUnitCall ==
    /\ llm_output = <<>>
    /\ parsed = <<>>
    /\ checked_plan = NoValue
    /\ verdicts = <<>>

\* ConnectionManager.__init__, and no broadcast under way
InitManager ==
    /\ endpoints = [c \in Sockets |-> "none"]
    /\ bc_pc = "idle"
    /\ bc_index = 0
    /\ bc_current = "none"
    /\ dead_connections = <<>>
    /\ bc_sends = <<>>
    /\ bc_start = <<>>
    /\ bc_left = {}

\* no answer of the memory service looked at by itself
InitNoSearch ==
    /\ search_data = NoValue
    /\ search_result = NoValue

Init == InitValidator /\ InitService /\ InitNoUnitCall /\ InitManager /\ InitNoSearch

unit_vars == <<llm_output, parsed, checked_plan, verdicts>>
manager_vars == <<endpoints, bc_pc, bc_index, bc_current, dead_connections,
                  bc_sends, bc_start, bc_left>>
search_vars == <<search_data, search_result>>
side_vars == <<lifecycle, manager_vars, search_vars>>
wire_vars == <<inbound, outbound>>

config_vars == <<allowed_actions, sandbox_enabled>>
client_vars == <<llm_session, memory_session, action_session>>
call_vars == <<request, memory_context, raw_actions, plan, validation_result,
               idx, results, exec_calls, exec_faults, store_calls, response,
               responses, call_outcome, search_fault, log, via, http_reply>>

\* main.py lifespan up to its yield, every connect succeeding:
\* JarvisOrchestrator() and JarvisOrchestrator.initialize
Initialize ==
    /\ ~initialized
    /\ lifecycle = <<"load_config">>
    /\ llm_session' = "open"
    /\ memory_session' = "open"
    /\ action_session' = "open"
    /\ initialized' = TRUE
    /\ lifecycle' = lifecycle \o <<"load_policy", "open_llm", "open_memory",
                                   "open_action", "ready">>
    /\ UNCHANGED <<config_vars, unit_vars, manager_vars, search_vars, wire_vars,
                   active_connections, ws, pc, call_vars, served>>

\* main.py websocket_endpoint -> ConnectionManager.connect
Connect ==
    /\ initialized
    /\ ws = "none"
    /\ ws' = "connected"
    /\ active_connections' = Append(active_connections, "ws1")
    /\ UNCHANGED <<config_vars, unit_vars, side_vars, wire_vars,
                   client_vars, initialized, pc, call_vars, served>>

\* variant of disconnect: the connection stays in the list
disconnect_Keeps(conns, c) == conns

\* ConnectionManager.disconnect
disconnect(conns, c) ==
    SelectSeq(conns, LAMBDA x : x # c)

\* websocket_endpoint: receive_json raises (client closed, or the socket broke)
Disconnect ==
    /\ ws \in {"connected", "broken", "peer_closed"}
    /\ pc = "idle"
    /\ ws' = "closed"
    /\ active_connections' = disconnect(active_connections, "ws1")
    /\ UNCHANGED <<config_vars, unit_vars, side_vars, wire_vars,
                   client_vars, initialized, pc, call_vars, served>>

\* The start of a process_request call, up to its first suspension point.
\* The statements before the try block raise when the orchestrator is not
\* initialized or when the request has no .get
StartCall(frame, entry) ==
    /\ served < MaxRequests
    /\ served' = served + 1
    /\ via' = entry
    /\ request' = frame
    /\ memory_context' = NoValue
    /\ raw_actions' = NoValue
    /\ plan' = NoValue
    /\ validation_result' = NoValue
    /\ idx' = 0
    /\ results' = <<>>
    /\ exec_calls' = <<>>
    /\ exec_faults' = <<>>
    /\ store_calls' = 0
    /\ response' = NoValue
    /\ responses' = 0
    /\ http_reply' = NoValue
    /\ search_fault' = "none"
    /\ IF ~initialized \/ frame.json # "object"
       THEN /\ call_outcome' = "raised"
            /\ log' = <<>>
       ELSE /\ call_outcome' = "running"
            /\ log' = <<Ev(FirstStage, "start")>>

\* websocket_endpoint: receive_json returns a frame and process_request runs
\* up to the memory search; when process_request raises, the endpoint drops
\* the connection without a reply
ReceiveFrame(frame) ==
    /\ ws = "connected"
    /\ pc = "idle"
    /\ StartCall(frame, "ws")
    /\ IF ~initialized \/ frame.json # "object"
       THEN /\ pc' = "closed"
            /\ ws' = "closed"
            /\ active_connections' = disconnect(active_connections, "ws1")
       ELSE /\ pc' = FirstStage
            /\ UNCHANGED <<ws, active_connections>>
    /\ inbound' = IF ~initialized \/ frame.json # "object"
                  THEN inbound
                  ELSE Append(inbound, RequestId(frame.value))
    /\ UNCHANGED <<config_vars, unit_vars, side_vars, outbound, client_vars, initialized>>

\* api/actions.py execute_action: the body is an ActionRequest, handed to
\* process_request as {type, content, context}
HttpExecute(body) ==
    /\ initialized
    /\ pc \in {"idle", "closed"}
    /\ StartCall([json |-> "object", value |-> body], "http")
    /\ pc' = FirstStage
    /\ UNCHANGED <<config_vars, unit_vars, side_vars, wire_vars,
                   client_vars, initialized, ws, active_connections>>

\* What one call of memory_client.search can do
SearchFaults == {"hits", "empty", "client_error", "exception"}

\* services/memory_client.py, MemoryClient.search
MemoryClient_search(fault) ==
    IF memory_session = "none"
    THEN [raised |-> "Memory client not connected"]
    ELSE IF memory_session = "closed"
    THEN [raised |-> SessionIsClosed]
    ELSE IF fault = "hits"
    THEN [returned |-> <<[content |-> "doc", metadata |-> EmptyMap]>>]
    ELSE IF fault \in {"empty", "client_error"}
    THEN [returned |-> <<>>]
    ELSE [raised |-> "Exception"]

_retrieve_memory_context(context, fault) ==
    LET call == MemoryClient_search(fault) IN
    IF "returned" \in DOMAIN call
    THEN [relevant_memories |-> call.returned,
          user_preferences  |-> Get(context, "user_preferences", EmptyMap)]
    ELSE [relevant_memories |-> <<>>, user_preferences |-> EmptyMap]

\* process_request step 1: the memory search completes and
\* llm_client.generate is called
MemorySearch(fault) ==
    /\ pc = "search"
    /\ memory_context' =
           _retrieve_memory_context(Get(request.value, "context", EmptyMap), fault)
    /\ search_fault' = fault
    /\ log' = log \o <<Ev("search", "end"), Ev("generate", "start")>>
    /\ pc' = "generate"
    /\ UNCHANGED <<config_vars, unit_vars, side_vars, wire_vars,
                   client_vars, initialized, active_connections,
                   ws, request, raw_actions, plan, validation_result, idx,
                   results, exec_calls, exec_faults, store_calls, response,
                   responses, call_outcome, via, http_reply, served>>

\* What one call of llm_client.generate can do: return a text, or raise
\* (aiohttp.ClientError is logged and re-raised, anything else propagates)
GenerateOutcomes ==
    {[raised |-> "ClientError"], [raised |-> "TimeoutError"]}
    \cup {[text |-> t] : t \in LLMTexts}

\* services/llm_client.py, LLMClient.generate
LLMClient_generate(gen) ==
    IF llm_session = "none" THEN [raised |-> "LLM client not connected"]
    ELSE IF llm_session = "closed" THEN [raised |-> SessionIsClosed]
    ELSE gen

RawActionsOf(text) ==
    LET decoded == ExtractJson(text) IN
    IF decoded.json = "object" /\ ExecutionPlanValid(decoded.value)
    THEN Get(decoded.value, "actions", <<>>)
    ELSE <<>>

\* process_request steps 2 and 3: generate returns or raises, the text is
\* parsed and the plan validated; an unsafe plan and an exception each end
\* the call here; a safe plan starts execute_plan, which dispatches the
\* first action, or, having no action, goes on to the memory store
LLMGenerate(gen) ==
    LET call == LLMClient_generate(gen)
        p    == parse_plan(call.text)
        v    == validate(p)
    IN
    /\ pc = "generate"
    /\ memory_context' = NoValue
    /\ search_fault' = "none"
    /\ IF "raised" \in DOMAIN call
       THEN /\ response' = ErrorResponse(RequestId(request.value), call.raised)
            /\ responses' = responses + 1
            /\ call_outcome' = "returned"
            /\ pc' = "respond"
            /\ log' = log \o <<Ev("generate", "raised"), Ev("respond", "error")>>
            /\ UNCHANGED <<raw_actions, plan, validation_result, idx,
                           store_calls, exec_calls>>
       ELSE /\ raw_actions' = RawActionsOf(call.text)
            /\ plan' = p
            /\ validation_result' = v
            /\ IF Rejected(v)
               THEN /\ response' = RejectedResponse(RequestId(request.value), v)
                    /\ responses' = responses + 1
                    /\ call_outcome' = "returned"
                    /\ pc' = "respond"
                    /\ log' = log \o <<Ev("generate", "text"), Ev("validate", "unsafe"),
                                       Ev("respond", "rejected")>>
                    /\ UNCHANGED <<idx, store_calls, exec_calls>>
               ELSE IF p.actions = <<>>
               THEN /\ pc' = "store"
                    /\ store_calls' = store_calls + 1
                    /\ log' = log \o <<Ev("generate", "text"), Ev("validate", "safe"),
                                       Ev("store", "start")>>
                    /\ UNCHANGED <<idx, response, responses, call_outcome, exec_calls>>
               ELSE /\ pc' = "execute"
                    /\ idx' = 1
                    /\ exec_calls' = <<p.actions[1]>>
                    /\ log' = log \o <<Ev("generate", "text"), Ev("validate", "safe"),
                                       Ev("execute", "start")>>
                    /\ UNCHANGED <<store_calls, response, responses, call_outcome>>
    /\ UNCHANGED <<config_vars, unit_vars, side_vars, wire_vars,
                   client_vars, initialized, active_connections,
                   ws, request, results, exec_faults, via, http_reply, served>>

\* execute_plan: the call of action_client.execute for actions[idx] ends and
\* its outcome is recorded; the loop then dispatches the next action, or,
\* after the last turn, _store_memory calls memory_client.store
ExecuteAction(fault, elapsed) ==
    /\ pc = "execute"
    /\ LET action == plan.actions[idx]
           result == _execute_single_action(action, fault, elapsed)
       IN  /\ exec_faults' = Append(exec_faults, fault)
           /\ results' = Append(results, result)
           /\ IF StopsExecution(result) \/ idx = Len(plan.actions)
              THEN /\ pc' = "store"
                   /\ store_calls' = store_calls + 1
                   /\ log' = log \o <<Ev("execute", fault), Ev("store", "start")>>
                   /\ UNCHANGED <<idx, exec_calls>>
              ELSE /\ idx' = idx + 1
                   /\ exec_calls' = Append(exec_calls, plan.actions[idx + 1])
                   /\ log' = log \o <<Ev("execute", fault), Ev("execute", "start")>>
                   /\ UNCHANGED <<pc, store_calls>>
    /\ UNCHANGED <<config_vars, unit_vars, side_vars, wire_vars,
                   client_vars, initialized, active_connections,
                   ws, request, memory_context, raw_actions, plan,
                   validation_result, response, responses, call_outcome, via,
                   http_reply, search_fault, served>>

\* What one call of memory_client.store can do
StoreFaults == {"ok", "client_error", "exception"}

\* services/memory_client.py, MemoryClient.store
MemoryClient_store(fault) ==
    IF memory_session = "none"
    THEN [raised |-> "Memory client not connected"]
    ELSE IF memory_session = "closed"
    THEN [raised |-> SessionIsClosed]
    ELSE IF fault = "ok"
    THEN [returned |-> TRUE]
    ELSE IF fault = "client_error"
    THEN [returned |-> FALSE]
    ELSE [raised |-> "Exception"]

\* variant of _store_memory: no try/except around the store call
_store_memory_Propagates(fault) == MemoryClient_store(fault)

\* JarvisOrchestrator._store_memory: the result of store is dropped and an
\* exception is logged, None is returned either way
_store_memory(fault) ==
    LET call == MemoryClient_store(fault) IN
    IF "raised" \in DOMAIN call
    THEN [returned |-> None]
    ELSE [returned |-> None]

\* process_request steps 5 and 6: the awaited store call ends and the
\* response is assembled
StoreMemory(fault) ==
    LET call == _store_memory(fault) IN
    /\ pc = "store"
    /\ IF "raised" \in DOMAIN call
       THEN /\ response' = ErrorResponse(RequestId(request.value), call.raised)
            /\ log' = log \o <<Ev("store", fault), Ev("respond", "error")>>
       ELSE /\ response' = _generate_response(RequestId(request.value), plan, results)
            /\ log' = log \o <<Ev("store", fault), Ev("respond", "results")>>
    /\ responses' = responses + 1
    /\ call_outcome' = "returned"
    /\ pc' = "respond"
    /\ UNCHANGED <<config_vars, unit_vars, side_vars, wire_vars,
                   client_vars, initialized, active_connections,
                   ws, request, memory_context, raw_actions, plan,
                   validation_result, idx, results, exec_calls, exec_faults,
                   store_calls, via, http_reply, search_fault, served>>

\* websocket_endpoint -> ConnectionManager.send_personal_message
SendResponse(sent) ==
    /\ pc = "respond"
    /\ via = "ws"
    /\ pc' = "idle"
    /\ IF sent
       THEN UNCHANGED <<ws, active_connections>>
       ELSE /\ ws' = "broken"
            /\ active_connections' = disconnect(active_connections, "ws1")
    /\ outbound' = IF sent THEN Append(outbound, response.request_id) ELSE outbound
    /\ UNCHANGED <<config_vars, unit_vars, side_vars, inbound, client_vars, initialized,
                   call_vars, served>>

\* the fields class ActionResponse requires (timestamp is left out)
ActionResponseFields == {"request_id", "status", "plan", "results", "summary"}

\* api/actions.py execute_action, from the return of process_request on:
\* an error response becomes HTTPException(500); any other response is
\* returned through response_model=ActionResponse, and one that lacks a
\* required field fails that validation, which FastAPI answers with 500
execute_action(resp) ==
    IF resp.status = "error"
    THEN [status_code |-> 500, detail |-> resp.error]
    ELSE IF ActionResponseFields \subseteq DOMAIN resp
    THEN [status_code |-> 200, body |-> resp]
    ELSE [status_code |-> 500, detail |-> "Internal server error"]

\* the HTTP handler answers
HttpReply ==
    /\ pc = "respond"
    /\ via = "http"
    /\ pc' = "idle"
    /\ http_reply' = execute_action(response)
    /\ UNCHANGED <<config_vars, unit_vars, side_vars, wire_vars,
                   client_vars, initialized, active_connections,
                   ws, request, memory_context, raw_actions, plan,
                   validation_result, idx, results, exec_calls, exec_faults,
                   store_calls, response, responses, call_outcome, log, via,
                   search_fault, served>>

\* the pipeline, whoever called it
Pipeline ==
    \/ \E fault \in SearchFaults : MemorySearch(fault)
    \/ \E gen \in GenerateOutcomes : LLMGenerate(gen)
    \/ \E fault \in ExecFaults, elapsed \in ElapsedSamples : ExecuteAction(fault, elapsed)
    \/ \E fault \in StoreFaults : StoreMemory(fault)

\* requests come over the WebSocket
Next ==
    \/ Initialize
    \/ Connect
    \/ Disconnect
    \/ \E frame \in RequestFrames : ReceiveFrame(frame)
    \/ \E fault \in SearchFaults : MemorySearch(fault)
    \/ \E gen \in GenerateOutcomes : LLMGenerate(gen)
    \/ \E fault \in ExecFaults, elapsed \in ElapsedSamples : ExecuteAction(fault, elapsed)
    \/ \E fault \in StoreFaults : StoreMemory(fault)
    \/ \E sent \in BOOLEAN : SendResponse(sent)

Spec == Init /\ [][Next]_vars

\* requests come over POST /api/actions/execute
NextHttp ==
    \/ Initialize
    \/ \E body \in ActionRequests : HttpExecute(body)
    \/ Pipeline
    \/ HttpReply

SpecHttp == Init /\ [][NextHttp]_vars

\* plans up to MaxExcess actions longer than MAX_CONCURRENT_ACTIONS: the same
\* allowed action throughout, or with a tool outside the allow-list at the end
LongActionSeqs ==
    UNION {{[i \in 1..n |-> OpenApp],
            [i \in 1..n |-> IF i = n THEN FormatDisk ELSE OpenApp]} :
               n \in 0..(MAX_CONCURRENT_ACTIONS + MaxExcess)}

LongGenerateOutcomes ==
    {[text |-> Wrapped("bare", FALSE,
                       [json |-> "object",
                        value |-> [intent |-> "do", actions |-> as]])] :
        as \in LongActionSeqs}

\* the action service answers each call, or does not answer in time
LongExecFaults == {"ok", "timeout"}

\* requests whose plans are long
NextLong ==
    \/ Initialize
    \/ \E body \in ActionRequests : HttpExecute(body)
    \/ \E fault \in SearchFaults : MemorySearch(fault)
    \/ \E gen \in LongGenerateOutcomes : LLMGenerate(gen)
    \/ \E fault \in LongExecFaults, elapsed \in ElapsedSamples :
           ExecuteAction(fault, elapsed)
    \/ \E fault \in StoreFaults : StoreMemory(fault)
    \/ HttpReply

SpecLong == Init /\ [][NextLong]_vars

\* JSON values a text handed to parse_plan can hold: a plan whose actions
\* leave fields out or carry an undeclared one, a plan with a safety_level
\* outside the pattern, and a value that is no object
PlanJson ==
    [json |-> "object", value |-> [intent |-> "do", actions |-> <<FormatDisk, Ls>>]]
BadLevelJson ==
    [json |-> "object", value |-> [intent |-> "do", actions |-> <<BadLevel>>]]
ArrayJson == [json |-> "array"]

ParsePayloads == {PlanJson, BadLevelJson, ArrayJson}

ParseTokens ==
    {Prose, Blank, Fence, JsonFence} \cup {Json(pl) : pl \in ParsePayloads}

ParseTexts == UNION {[1..n -> ParseTokens] : n \in 0..MaxTextLen}

\* json.dumps of a plan: one JSON object, no backticks in it
json_dumps(value) == <<Json([json |-> "object", value |-> value])>>

\* PlanningEngine.parse_plan is called on a text
ParsePlan ==
    /\ parsed = <<>>
    /\ parsed' = <<parse_plan(llm_output)>>
    /\ UNCHANGED <<config_vars, side_vars, client_vars, initialized,
                   active_connections, ws,
                   pc, call_vars, served, wire_vars, llm_output, checked_plan,
                   verdicts>>

\* parse_plan is called on the JSON serialization of the plan it returned
ReparsePlan ==
    /\ Len(parsed) = 1
    /\ parsed' = Append(parsed, parse_plan(json_dumps(parsed[1])))
    /\ UNCHANGED <<config_vars, side_vars, client_vars, initialized,
                   active_connections, ws,
                   pc, call_vars, served, wire_vars, llm_output, checked_plan,
                   verdicts>>

InitParse ==
    /\ allowed_actions = DefaultAllowedActions
    /\ sandbox_enabled = TRUE
    /\ InitService
    /\ InitManager
    /\ InitNoSearch
    /\ llm_output \in ParseTexts
    /\ parsed = <<>>
    /\ checked_plan = NoValue
    /\ verdicts = <<>>

NextParse ==
    \/ ParsePlan
    \/ ReparsePlan

\* parse_plan called by itself on every text of ParseTexts
SpecParse == InitParse /\ [][NextParse]_vars

\* frames of several requests: two ids, no id, and a frame that is no object
WsFrames ==
    {[json |-> "object",
      value |-> [id |-> "req-1", type |-> "command", content |-> "open firefox"]],
     [json |-> "object",
      value |-> [id |-> "req-2", type |-> "command", content |-> "open firefox"]],
     [json |-> "object", value |-> [type |-> "command", content |-> "open firefox"]],
     [json |-> "array"]}

\* generate fails, or returns a plan that is executed, or one that is rejected
WsGenerateOutcomes ==
    {[raised |-> "ClientError"],
     [text |-> Wrapped("bare", FALSE,
                       [json |-> "object",
                        value |-> [intent |-> "do", actions |-> <<OpenApp>>]])],
     [text |-> Wrapped("json_fence", TRUE,
                       [json |-> "object",
                        value |-> [intent |-> "do", actions |-> <<FormatDisk>>]])]}

\* one WebSocket connection that carries several requests
NextWs ==
    \/ Initialize
    \/ Connect
    \/ Disconnect
    \/ \E frame \in WsFrames : ReceiveFrame(frame)
    \/ \E fault \in SearchFaults : MemorySearch(fault)
    \/ \E gen \in WsGenerateOutcomes : LLMGenerate(gen)
    \/ \E fault \in ExecFaults, elapsed \in ElapsedSamples : ExecuteAction(fault, elapsed)
    \/ \E fault \in StoreFaults : StoreMemory(fault)
    \/ \E sent \in BOOLEAN : SendResponse(sent)

SpecWs == Init /\ [][NextWs]_vars

\* actions as validate gets them from parse_plan
ValidatorActions == {Action(raw) : raw \in {OpenApp, OpenAppCritical, FormatDisk, RmRf, Ls}}

\* plans handed to validate: every short plan, and plans up to MaxExcess
\* actions longer than MAX_CONCURRENT_ACTIONS made of one allowed action,
\* with any action at the end
ValidatorPlans ==
    {ExecutionPlan([intent |-> "do", actions |-> as]) :
        as \in UNION {[1..n -> ValidatorActions] : n \in 0..MaxPlanLen}}
    \cup
    {ExecutionPlan([intent |-> "do",
                    actions |-> [i \in 1..n |-> IF i = n THEN a ELSE Action(OpenApp)]]) :
        n \in 1..(MAX_CONCURRENT_ACTIONS + MaxExcess), a \in ValidatorActions}

\* SafetyValidator.validate is called on a plan
Validate ==
    /\ Len(verdicts) < 2
    /\ verdicts' = Append(verdicts, validate(checked_plan))
    /\ UNCHANGED <<config_vars, side_vars, client_vars, initialized,
                   active_connections, ws,
                   pc, call_vars, served, wire_vars, llm_output, parsed,
                   checked_plan>>

InitValidate ==
    /\ InitValidator
    /\ InitService
    /\ InitManager
    /\ InitNoSearch
    /\ llm_output = <<>>
    /\ parsed = <<>>
    /\ checked_plan \in ValidatorPlans
    /\ verdicts = <<>>

NextValidate == Validate

\* validate called by itself, twice, on every plan of ValidatorPlans
SpecValidate == InitValidate /\ [][NextValidate]_vars

-----------------------------------------------------------------------------
(* The lifespan of the service, step by step *)

Last(s) == s[Len(s)]

\* all the state of the orchestrator's calls and of the one connection
request_vars == <<config_vars, unit_vars, wire_vars, ws, pc, call_vars, served>>

\* main.py lifespan line 32: JarvisOrchestrator() builds the SafetyValidator,
\* whose __init__ loads the permission rules
Construct ==
    /\ lifecycle = <<"load_config">>
    /\ lifecycle' = Append(lifecycle, "load_policy")
    /\ UNCHANGED <<request_vars, manager_vars, search_vars, client_vars,
                   initialized, active_connections>>

\* initialize: the clients are built and llm_client.connect() returns or raises
OpenLLM(ok) ==
    /\ Last(lifecycle) = "load_policy"
    /\ llm_session' = IF ok THEN "open" ELSE llm_session
    /\ lifecycle' = Append(lifecycle, IF ok THEN "open_llm" ELSE "failed")
    /\ UNCHANGED <<request_vars, manager_vars, search_vars, memory_session,
                   action_session, initialized, active_connections>>

\* initialize: memory_client.connect() returns or raises
OpenMemory(ok) ==
    /\ Last(lifecycle) = "open_llm"
    /\ memory_session' = IF ok THEN "open" ELSE memory_session
    /\ lifecycle' = Append(lifecycle, IF ok THEN "open_memory" ELSE "failed")
    /\ UNCHANGED <<request_vars, manager_vars, search_vars, llm_session,
                   action_session, initialized, active_connections>>

\* initialize: action_client.connect() returns, initialized is set and
\* lifespan yields; or connect raises
OpenAction(ok) ==
    /\ Last(lifecycle) = "open_memory"
    /\ action_session' = IF ok THEN "open" ELSE action_session
    /\ initialized' = ok
    /\ lifecycle' = lifecycle \o (IF ok THEN <<"open_action", "ready">>
                                        ELSE <<"failed">>)
    /\ UNCHANGED <<request_vars, manager_vars, search_vars, llm_session,
                   memory_session, active_connections>>

\* shutdown: llm_client.close()
CloseLLM ==
    /\ Last(lifecycle) = "ready"
    /\ llm_session' = "closed"
    /\ lifecycle' = Append(lifecycle, "close_llm")
    /\ UNCHANGED <<request_vars, manager_vars, search_vars, memory_session,
                   action_session, initialized, active_connections>>

\* shutdown: memory_client.close()
CloseMemory ==
    /\ Last(lifecycle) = "close_llm"
    /\ memory_session' = "closed"
    /\ lifecycle' = Append(lifecycle, "close_memory")
    /\ UNCHANGED <<request_vars, manager_vars, search_vars, llm_session,
                   action_session, initialized, active_connections>>

\* shutdown: action_client.close()
CloseAction ==
    /\ Last(lifecycle) = "close_memory"
    /\ action_session' = "closed"
    /\ lifecycle' = Append(lifecycle, "close_action")
    /\ UNCHANGED <<request_vars, manager_vars, search_vars, llm_session,
                   memory_session, initialized, active_connections>>

\* the service from start to stop, with requests over HTTP
NextLife ==
    \/ Construct
    \/ \E ok \in BOOLEAN : OpenLLM(ok)
    \/ \E ok \in BOOLEAN : OpenMemory(ok)
    \/ \E ok \in BOOLEAN : OpenAction(ok)
    \/ CloseLLM
    \/ CloseMemory
    \/ CloseAction
    \/ \E body \in ActionRequests : HttpExecute(body)
    \/ \E fault \in SearchFaults : MemorySearch(fault)
    \/ \E gen \in WsGenerateOutcomes : LLMGenerate(gen)
    \/ \E fault \in LongExecFaults, elapsed \in ElapsedSamples :
           ExecuteAction(fault, elapsed)
    \/ \E fault \in StoreFaults : StoreMemory(fault)
    \/ HttpReply

SpecLife == Init /\ [][NextLife]_vars

-----------------------------------------------------------------------------
(* The client closes the connection during a call *)

\* the client closes the socket, or the transport fails, while the endpoint
\* awaits process_request: the endpoint is not reading, nothing is raised
ClientClose ==
    /\ ws = "connected"
    /\ pc \in {"search", "generate", "execute", "store", "respond"}
    /\ ws' = "peer_closed"
    /\ UNCHANGED <<config_vars, unit_vars, side_vars, wire_vars, client_vars,
                   initialized, active_connections, pc, call_vars, served>>

NextClose ==
    \/ Initialize
    \/ Connect
    \/ ClientClose
    \/ Disconnect
    \/ \E frame \in RequestFrames : ReceiveFrame(frame)
    \/ \E fault \in SearchFaults : MemorySearch(fault)
    \/ \E gen \in WsGenerateOutcomes : LLMGenerate(gen)
    \/ \E fault \in LongExecFaults, elapsed \in ElapsedSamples :
           ExecuteAction(fault, elapsed)
    \/ \E fault \in StoreFaults : StoreMemory(fault)
    \/ \E sent \in BOOLEAN : SendResponse(sent)

SpecClose == Init /\ [][NextClose]_vars

-----------------------------------------------------------------------------
(* Plans that do and do not ask for confirmation *)

\* plans of the same actions with and without requires_confirmation; the
\* verdict of one with a critical action has requires_confirmation true
ConfirmPlans ==
    {[intent |-> "do", actions |-> as, requires_confirmation |-> flag] :
        as \in {<<OpenApp>>, <<OpenAppCritical>>, <<OpenApp, OpenAppCritical>>,
                <<OpenAppCritical, OpenApp>>},
        flag \in BOOLEAN}

ConfirmGenerateOutcomes ==
    {[text |-> Wrapped("bare", FALSE, [json |-> "object", value |-> p])] :
        p \in ConfirmPlans}

NextConfirm ==
    \/ Initialize
    \/ \E body \in ActionRequests : HttpExecute(body)
    \/ \E fault \in SearchFaults : MemorySearch(fault)
    \/ \E gen \in ConfirmGenerateOutcomes : LLMGenerate(gen)
    \/ \E fault \in ExecFaults, elapsed \in ElapsedSamples :
           ExecuteAction(fault, elapsed)
    \/ \E fault \in StoreFaults : StoreMemory(fault)
    \/ HttpReply

SpecConfirm == Init /\ [][NextConfirm]_vars

-----------------------------------------------------------------------------
(* api/websocket.py, ConnectionManager with several sockets *)

\* `websocket in self.active_connections`
InList(conns, c) == \E i \in 1..Len(conns) : conns[i] = c

\* the connections their endpoint removes while a broadcast is suspended
LeftDuringBroadcast(c) ==
    IF bc_pc = "sending" /\ InList(active_connections, c)
    THEN bc_left \cup {c}
    ELSE bc_left

service_vars == <<request_vars, client_vars, initialized, lifecycle, search_vars>>

\* websocket_endpoint of socket c -> ConnectionManager.connect
Accept(c) ==
    /\ initialized
    /\ endpoints[c] = "none"
    /\ endpoints' = [endpoints EXCEPT ![c] = "connected"]
    /\ active_connections' = Append(active_connections, c)
    /\ UNCHANGED <<service_vars, bc_pc, bc_index, bc_current, dead_connections,
                   bc_sends, bc_start, bc_left>>

\* websocket_endpoint of socket c: receive_json raises and the endpoint
\* calls disconnect, also when a failed send has removed c already
EndpointDisconnect(c) ==
    /\ endpoints[c] \in {"connected", "broken"}
    /\ endpoints' = [endpoints EXCEPT ![c] = "closed"]
    /\ active_connections' = disconnect(active_connections, c)
    /\ bc_left' = LeftDuringBroadcast(c)
    /\ UNCHANGED <<service_vars, bc_pc, bc_index, bc_current, dead_connections,
                   bc_sends, bc_start>>

\* send_personal_message to socket c, called by its endpoint: send_json
\* returns, or raises and c is removed; no send on a socket succeeds after
\* one has failed
PersonalSend(c, ok) ==
    /\ endpoints[c] = "connected"
    /\ IF ok
       THEN UNCHANGED <<endpoints, active_connections, bc_left>>
       ELSE /\ endpoints' = [endpoints EXCEPT ![c] = "broken"]
            /\ active_connections' = disconnect(active_connections, c)
            /\ bc_left' = LeftDuringBroadcast(c)
    /\ UNCHANGED <<service_vars, bc_pc, bc_index, bc_current, dead_connections,
                   bc_sends, bc_start>>

\* the second loop of broadcast
RECURSIVE DisconnectAll(_, _)
DisconnectAll(conns, dead) ==
    IF dead = <<>> THEN conns
    ELSE DisconnectAll(disconnect(conns, Head(dead)), Tail(dead))

\* broadcast from one turn of its first loop to the next: the iterator of
\* the list yields the element after those it has passed and the send to it
\* begins; or the list is exhausted, the dead connections are removed and
\* broadcast returns
BroadcastNext(index, dead) ==
    IF index < Len(active_connections)
    THEN /\ bc_pc' = "sending"
         /\ bc_index' = index + 1
         /\ bc_current' = active_connections[index + 1]
         /\ UNCHANGED active_connections
    ELSE /\ bc_pc' = "returned"
         /\ bc_index' = index
         /\ bc_current' = "none"
         /\ active_connections' = DisconnectAll(active_connections, dead)

\* broadcast is called
BroadcastCall ==
    /\ initialized
    /\ bc_pc \in {"idle", "returned"}
    /\ dead_connections' = <<>>
    /\ bc_sends' = <<>>
    /\ bc_start' = active_connections
    /\ bc_left' = {}
    /\ BroadcastNext(0, <<>>)
    /\ UNCHANGED <<service_vars, endpoints>>

\* broadcast: the send to bc_current returns or raises
BroadcastSend(ok) ==
    /\ bc_pc = "sending"
    /\ ok => endpoints[bc_current] = "connected"
    /\ bc_sends' = Append(bc_sends, [connection |-> bc_current, ok |-> ok])
    /\ dead_connections' = IF ok THEN dead_connections
                                 ELSE Append(dead_connections, bc_current)
    /\ endpoints' = IF ok \/ endpoints[bc_current] = "closed" THEN endpoints
                    ELSE [endpoints EXCEPT ![bc_current] = "broken"]
    /\ BroadcastNext(bc_index, dead_connections')
    /\ UNCHANGED <<service_vars, bc_start, bc_left>>

\* several endpoints and broadcasts
NextManager ==
    \/ Initialize
    \/ \E c \in Sockets : Accept(c)
    \/ \E c \in Sockets : EndpointDisconnect(c)
    \/ \E c \in Sockets, ok \in BOOLEAN : PersonalSend(c, ok)
    \/ BroadcastCall
    \/ \E ok \in BOOLEAN : BroadcastSend(ok)

SpecManager == Init /\ [][NextManager]_vars

-----------------------------------------------------------------------------
(* services/memory_client.py, the answer to a query *)

Documents == {"d1", "d2"}

\* the metadata of a document: a map, or null
Metadatas == {EmptyMap, [topic |-> "x"], NoValue}

\* an inner list of up to MaxDocs elements, inside an outer list or not
Lists(S) ==
    LET inner == UNION {[1..n -> S] : n \in 0..MaxDocs}
    IN  {<<>>} \cup {<<l>> : l \in inner}

\* decoded bodies of the query answer, with and without each of the keys
SearchPayloads ==
    {[documents |-> d, metadatas |-> m] : d \in Lists(Documents), m \in Lists(Metadatas)}
    \cup {[documents |-> d] : d \in Lists(Documents)}
    \cup {[metadatas |-> m] : m \in Lists(Metadatas)}
    \cup {[ids |-> <<>>]}

\* zip() of two lists: as long as the shorter one
Zip(docs, metadatas) ==
    [i \in 1..Min({Len(docs), Len(metadatas)}) |->
        [content |-> docs[i], metadata |-> metadatas[i]]]

\* MemoryClient.search from `results = []` to `return results`
QueryResults(data) ==
    IF "documents" \in DOMAIN data /\ Len(data.documents) > 0
    THEN LET metadatas == Get(data, "metadatas", <<<<>>>>) IN
         IF Len(metadatas) = 0 THEN [raised |-> "IndexError"]
         ELSE [returned |-> Zip(data.documents[1], metadatas[1])]
    ELSE [returned |-> <<>>]

\* the memory service has answered and search builds its result
SearchAnswers ==
    /\ search_result = NoValue
    /\ search_result' = QueryResults(search_data)
    /\ UNCHANGED <<request_vars, client_vars, initialized, lifecycle,
                   active_connections, manager_vars, search_data>>

InitSearch ==
    /\ allowed_actions = DefaultAllowedActions
    /\ sandbox_enabled = TRUE
    /\ InitService
    /\ InitNoUnitCall
    /\ InitManager
    /\ search_data \in SearchPayloads
    /\ search_result = NoValue

NextSearch == SearchAnswers

\* the result MemoryClient.search builds from every answer of SearchPayloads
SpecSearch == InitSearch /\ [][NextSearch]_vars

-----------------------------------------------------------------------------
(* Properties *)

HasVerdict == "safe" \in DOMAIN validation_result
HasPlan == "actions" \in DOMAIN plan
Returned == call_outcome = "returned"
CarriesResults == Returned /\ "results" \in DOMAIN response

\* the action the i-th outcome stems from carries critical = true
CarriesCritical(i) == Get(raw_actions[i], "critical", FALSE) = TRUE

NotAllowedText == <<"n","o","t"," ","a","l","l","o","w","e","d">>

\* C1: whenever the validator's verdict is safe = false, the call has
\* returned a response with status "rejected" that carries the verdict's
\* reason and no results, and the call made no action_client.execute call and
\* no memory_client.store call.
C1_RejectedShortCircuit ==
    (HasVerdict /\ ~validation_result.safe) =>
        /\ Returned
        /\ responses = 1
        /\ response.status = "rejected"
        /\ "reason" \in DOMAIN response
        /\ response.reason = validation_result.reason
        /\ "results" \notin DOMAIN response
        /\ exec_calls = <<>>
        /\ store_calls = 0

C1_Witness ==
    /\ HasVerdict
    /\ ~validation_result.safe
    /\ Len(plan.actions) = 2
    /\ pc = "respond"

C3_ParseErrorEndsInError ==
    (HasPlan /\ "error" \in DOMAIN plan) =>
        /\ exec_calls = <<>>
        /\ store_calls = 0
        /\ Returned => response.status = "error"

\* C4: stop-on-critical: once the outcome of an action that carries
\* critical = true is non-success, no later action of the plan is dispatched
\* and the outcomes end with that action's outcome.
C4_StopOnCritical ==
    \A i \in 1..Len(results) :
        (results[i].status # "success" /\ CarriesCritical(i)) =>
            /\ Len(results) = i
            /\ Len(exec_calls) = i

\* C5: a response that carries results has at most as many outcomes as the
\* plan has actions, and exactly as many unless an action with
\* critical = true produced a non-success outcome.
C5_OutcomeCount ==
    CarriesResults =>
        LET rs == response.results
            as == response.plan.actions
        IN  /\ Len(rs) <= Len(as)
            /\ (~\E i \in 1..Len(rs) :
                     rs[i].status # "success" /\ CarriesCritical(i))
                   => Len(rs) = Len(as)

C5_Witness ==
    /\ CarriesResults
    /\ Len(response.plan.actions) = 2
    /\ response.results[1].status = "error"
    /\ ~CarriesCritical(1)
    /\ Len(response.results) = 2

\* C6: when an action's call exceeds ACTION_TIMEOUT, its outcome has status
\* "timeout" and execution time ACTION_TIMEOUT, and execution goes on with
\* the next action unless the action is critical.
C6_TimeoutOutcome ==
    \A i \in 1..Len(results) :
        exec_faults[i] = "timeout" =>
            /\ results[i].status = "timeout"
            /\ results[i].execution_time = ACTION_TIMEOUT
            /\ (~CarriesCritical(i) /\ pc # "execute")
                   => Len(results) = Len(plan.actions)

\* C7: when the call to the action-exec service fails by transport error or
\* by a non-2xx answer, the outcome recorded for the action has status
\* "error" with an error message, never status "success".
C7_FailedCallIsError ==
    \A i \in 1..Len(results) :
        exec_faults[i] = "client_error" =>
            /\ results[i].status = "error"
            /\ "error" \in DOMAIN results[i]

\* C8: a response produced after execution has status "success" if and only
\* if every outcome in its results has status "success"; a plan with no
\* actions yields status "success" with empty results.
C8_SuccessIffAllSucceed ==
    CarriesResults =>
        /\ response.status = "success"
               <=> \A i \in 1..Len(response.results) :
                       response.results[i].status = "success"
        /\ response.plan.actions = <<>>
               => (response.status = "success" /\ response.results = <<>>)

C8_Witness ==
    /\ CarriesResults
    /\ response.status = "success"
    /\ Len(response.results) = 2

\* C9 as stated: a response has status "partial" if and only if at least one
\* outcome in its results has status "success" and at least one has not.
C9_AsStated ==
    Returned =>
        LET rs == Get(response, "results", <<>>) IN
        response.status = "partial"
            <=> /\ \E i \in 1..Len(rs) : rs[i].status = "success"
                /\ \E i \in 1..Len(rs) : rs[i].status # "success"

\* C9 (amended): a response has status "partial" if and only if at least one
\* outcome in its results has a status other than "success".
C9_PartialIffSomeFail ==
    Returned =>
        LET rs == Get(response, "results", <<>>) IN
        response.status = "partial"
            <=> \E i \in 1..Len(rs) : rs[i].status # "success"

C9_Witness ==
    /\ CarriesResults
    /\ response.status = "partial"
    /\ response.results # <<>>
    /\ \A i \in 1..Len(response.results) : response.results[i].status # "success"

\* C10: every process_request call produces exactly one response: no call
\* ends by an exception that leaves the pipeline, and none yields more than
\* one response.
C10_ExactlyOneResponse ==
    /\ call_outcome # "raised"
    /\ responses <= 1
    /\ Returned => responses = 1

StageRank(stage) ==
    CASE stage = "search"   -> 1
      [] stage = "generate" -> 2
      [] stage = "validate" -> 3
      [] stage = "execute"  -> 4
      [] stage = "store"    -> 5
      [] stage = "respond"  -> 6

AwaitedStages == {"search", "generate", "execute", "store"}

Starts(stage) == {i \in 1..Len(log) : log[i] = Ev(stage, "start")}
Ends(stage) == {i \in 1..Len(log) : log[i].ev = stage /\ log[i].fault # "start"}

\* C11: within one process_request call the stages follow one another:
\* memory search, generate, validation, the action dispatches, memory store,
\* response; a stage that has started ends before anything else starts, and
\* no stage starts unless the stage before it has ended.
C11_StagesInSequence ==
    /\ \A i, j \in 1..Len(log) :
           i < j => StageRank(log[i].ev) <= StageRank(log[j].ev)
    /\ \A i \in 1..Len(log) :
           /\ (log[i].fault = "start" /\ i < Len(log))
                  => (log[i + 1].ev = log[i].ev /\ log[i + 1].fault # "start")
           /\ (log[i].ev \in AwaitedStages /\ log[i].fault # "start")
                  => (i > 1 /\ log[i - 1] = Ev(log[i].ev, "start"))
    /\ \A j \in Starts("generate") : \E i \in Ends("search") : i < j
    /\ \A j \in Ends("validate") : \E i \in Ends("generate") : i < j
    /\ \A j \in Starts("execute") : \E i \in Ends("validate") : i < j
    /\ \A j \in Starts("store") : \E i \in Ends("validate") : i < j
    /\ \A j \in Ends("respond") :
           log[j].fault = "results" => \E i \in Ends("store") : i < j
    /\ Cardinality(Starts("execute")) = Len(exec_calls)
    /\ Cardinality(Ends("execute")) = Len(results)
    /\ Cardinality(Starts("store")) = store_calls
    /\ pc \in AwaitedStages => (log # <<>> /\ log[Len(log)] = Ev(pc, "start"))

C11_Witness ==
    /\ pc = "respond"
    /\ Len(results) = 2
    /\ Ends("search") # {}
    /\ Ends("generate") # {}
    /\ Ends("store") # {}
    /\ Ends("respond") # {}

\* C12: the i-th outcome belongs to the i-th action of the plan, the actions
\* are dispatched in plan order, action i+1 is dispatched only once the
\* outcome of action i is recorded, and at most one action is in flight.
C12_OutcomesInPlanOrder ==
    /\ Len(results) <= Len(exec_calls)
    /\ Len(exec_calls) <= Len(results) + 1
    /\ HasPlan =>
           /\ Len(exec_calls) <= Len(plan.actions)
           /\ \A i \in 1..Len(exec_calls) : exec_calls[i] = plan.actions[i]
           /\ \A i \in 1..Len(results) : results[i].action = plan.actions[i].tool

C12_Witness ==
    /\ HasPlan
    /\ Len(results) = 1
    /\ Len(exec_calls) = 2
    /\ plan.actions[1].tool # plan.actions[2].tool

StoreEnded(fault) == \E i \in 1..Len(log) : log[i] = Ev("store", fault)

Succeeded(rs) == {i \in 1..Len(rs) : rs[i].status = "success"}

\* C13: the memory store is fire-and-forget: while memory_client.store is
\* still pending, process_request has already returned its response.
C13_StoreNotAwaited ==
    pc = "store" => Returned

\* C14: a failed memory store (store returns false or raises) is not
\* surfaced: the response carries the plan, the outcomes, and the status and
\* summary that follow from the outcomes, as after a successful store.
C14_StoreFailureNotSurfaced ==
    (StoreEnded("client_error") \/ StoreEnded("exception")) =>
        /\ Returned
        /\ DOMAIN response =
               {"request_id", "status", "plan", "results", "summary"}
        /\ response.request_id = RequestId(request.value)
        /\ response.plan = plan
        /\ response.results = results
        /\ response.status =
               (IF Succeeded(results) = 1..Len(results) THEN "success" ELSE "partial")
        /\ response.summary =
               <<"Executed ", ToString(Cardinality(Succeeded(results))), "/",
                 ToString(Len(results)), " actions successfully.">>

C14_Witness ==
    /\ pc = "respond"
    /\ StoreEnded("exception")
    /\ Len(results) = 2
    /\ response.status = "partial"

\* C15: a failed memory search is absorbed: planning starts with no relevant
\* memories and with the request's context.user_preferences (the empty map
\* when absent) as preferences.
C15_SearchFailureAbsorbed ==
    (pc = "generate" /\ search_fault \in {"client_error", "exception"}) =>
        memory_context =
            [relevant_memories |-> <<>>,
             user_preferences  |->
                 Get(Get(request.value, "context", EmptyMap),
                     "user_preferences", EmptyMap)]

\* C16: when generate fails, process_request returns status "error" with
\* error "llm_unavailable", dispatches no action and does not call the
\* memory store.
C16_LlmUnavailable ==
    (\E i \in 1..Len(log) : log[i] = Ev("generate", "raised")) =>
        /\ Returned
        /\ response.status = "error"
        /\ response.error = "llm_unavailable"
        /\ exec_calls = <<>>
        /\ store_calls = 0

\* C18: POST /api/actions/execute answers a policy rejection with a
\* successful HTTP reply that carries the rejected response and its reason.
C18_RejectionIs2xx ==
    (via = "http" /\ "status_code" \in DOMAIN http_reply /\ HasVerdict
        /\ ~validation_result.safe) =>
        /\ http_reply.status_code = 200
        /\ http_reply.body.status = "rejected"
        /\ http_reply.body.reason = validation_result.reason

\* C19: under the default configuration, a plan that contains an
\* execute_command action whose command holds a dangerous pattern is
\* rejected with a reason that reports a dangerous command.
C19_DangerousCommandReported ==
    (/\ allowed_actions = DefaultAllowedActions
     /\ sandbox_enabled
     /\ HasPlan /\ HasVerdict
     /\ \E i \in 1..Len(plan.actions) :
            /\ plan.actions[i].tool = "execute_command"
            /\ \E k \in dangerous_keywords :
                   IsSubstring(k, Get(plan.actions[i].arguments, "command", EmptyStr)))
        => /\ ~validation_result.safe
           /\ IsSubstring(<<"D","a","n","g","e","r","o","u","s">>,
                          validation_result.reason)

RECURSIVE TimeInActions(_)
\* the time the outcomes rs took, added up
TimeInActions(rs) ==
    IF rs = <<>> THEN 0
    ELSE rs[Len(rs)].execution_time + TimeInActions(SubSeq(rs, 1, Len(rs) - 1))

\* C17: a deadline of 120 s covers the whole call: no action is dispatched
\* once the actions before it have used up the deadline, and a call whose
\* actions took longer than the deadline returns status "error" with error
\* "deadline_exceeded".
C17_DeadlineEnforced ==
    /\ \A i \in 1..Len(exec_calls) :
           i - 1 <= Len(results)
               => TimeInActions(SubSeq(results, 1, i - 1)) < 120
    /\ (Returned /\ TimeInActions(results) > 120) =>
           /\ response.status = "error"
           /\ "error" \in DOMAIN response
           /\ response.error = "deadline_exceeded"

\* C20: a plan with more than MAX_CONCURRENT_ACTIONS actions is never
\* validated as safe and none of its actions is dispatched; when each of its
\* actions passes the per-action checks, the reason says there are too many
\* actions.
C20_TooManyActionsRejected ==
    (HasPlan /\ HasVerdict /\ Len(plan.actions) > MAX_CONCURRENT_ACTIONS) =>
        /\ ~validation_result.safe
        /\ exec_calls = <<>>
        /\ Returned /\ response.status = "rejected"
        /\ (\A i \in 1..Len(plan.actions) : _validate_action(plan.actions[i]).safe)
               => /\ IsSubstring(<<"T","o","o"," ","m","a","n","y">>,
                                 validation_result.reason)
                  /\ response.reason = validation_result.reason

C20_Witness ==
    /\ HasPlan /\ HasVerdict
    /\ Len(plan.actions) = MAX_CONCURRENT_ACTIONS + 1
    /\ \A i \in 1..Len(plan.actions) : _validate_action(plan.actions[i]).safe
    /\ validation_result = [safe |-> FALSE,
                            reason |-> ReasonTooMany(MAX_CONCURRENT_ACTIONS + 1)]
    /\ response.status = "rejected"

\* the plan parse_plan returns when it fails
IsErrorPlan(r) ==
    /\ DOMAIN r = {"intent", "actions", "requires_confirmation",
                   "estimated_duration", "error"}
    /\ r.intent = "error"
    /\ r.actions = <<>>
    /\ r.requires_confirmation = FALSE
    /\ r.estimated_duration = 0
    /\ r.error # ""

\* the text holds nothing but the payload pl
HoldsOnly(text, pl) == Strip(text) = <<Json(pl)>>

\* C25: parse_plan raises for no text; a text that is not JSON, holds a JSON
\* value that is no object, or holds an object that does not fit the plan
\* schema, gives the error plan: intent "error", no actions,
\* requires_confirmation false, estimated_duration 0 and a non-empty error.
C25_ParseNeverRaises ==
    \A n \in 1..Len(parsed) :
        /\ "raised" \notin DOMAIN parsed[n]
        /\ "intent" \in DOMAIN parsed[n]
        /\ "error" \in DOMAIN parsed[n] => IsErrorPlan(parsed[n])
        /\ (n = 1 /\ ~HoldsOnly(llm_output, PlanJson)
                  /\ Find(llm_output, {"fence", "json_fence"}, 1) = 0)
               => IsErrorPlan(parsed[n])

C25_Witness ==
    /\ Len(parsed) = 1
    /\ llm_output = <<Json(ArrayJson)>>
    /\ IsErrorPlan(parsed[1])

\* text[i] opens and text[j] closes a fenced block that holds the payload b
\* and nothing else, and the block is the one the claim means: labelled
\* json with no json-labelled marker before it, or generic, with no marker
\* before it and no json-labelled marker in the text
IsWrapped(text, i, j, b) ==
    /\ i < j
    /\ text[i].tok \in {"json_fence", "fence"}
    /\ text[j].tok = "fence"
    /\ HoldsOnly(SubSeq(text, i + 1, j - 1), b)
    /\ \A k \in 1..(i - 1) : text[k].tok # "json_fence"
    /\ text[i].tok = "fence" =>
           /\ \A k \in 1..(i - 1) : text[k].tok # "fence"
           /\ \A k \in 1..Len(text) : text[k].tok # "json_fence"

\* C26: when a plan JSON parses on its own, a text that holds it in a fenced
\* block, with more text before and after, parses to the same plan.
C26_ProseAroundBlock ==
    \A i, j \in 1..Len(llm_output), b \in ParsePayloads :
        (/\ Len(parsed) >= 1
         /\ IsWrapped(llm_output, i, j, b)
         /\ "error" \notin DOMAIN parse_plan(<<Json(b)>>))
            => parsed[1] = parse_plan(<<Json(b)>>)

C26_Witness ==
    /\ llm_output = <<Prose, JsonFence, Json(PlanJson), Fence, Prose>>
    /\ Len(parsed) = 1
    /\ parsed[1].intent = "do"
    /\ Len(parsed[1].actions) = 2

\* C27: parsing the JSON serialization of a returned plan gives that plan
\* again, error plans included.
C27_ParseIdempotent ==
    Len(parsed) = 2 => parsed[2] = parsed[1]

\* C28: in a plan that is no error plan every action has a safety_level
\* among low, medium, high, critical (medium when the input has none), the
\* input's arguments or the empty map, and the input's description or the
\* empty string; an input action with another safety_level gives the error
\* plan.
C28_ActionDefaults ==
    \A pl \in ParsePayloads :
        (Len(parsed) >= 1 /\ HoldsOnly(llm_output, pl) /\ pl.json = "object") =>
            LET raw == pl.value.actions
                r   == parsed[1]
            IN  /\ (\E i \in 1..Len(raw) :
                        /\ "safety_level" \in DOMAIN raw[i]
                        /\ raw[i].safety_level \notin SafetyLevels)
                       => IsErrorPlan(r)
                /\ "error" \notin DOMAIN r =>
                       /\ Len(r.actions) = Len(raw)
                       /\ \A i \in 1..Len(raw) :
                              /\ r.actions[i].safety_level \in SafetyLevels
                              /\ r.actions[i].safety_level =
                                     (IF "safety_level" \in DOMAIN raw[i]
                                      THEN raw[i].safety_level ELSE "medium")
                              /\ r.actions[i].arguments =
                                     (IF "arguments" \in DOMAIN raw[i]
                                      THEN raw[i].arguments ELSE EmptyMap)
                              /\ r.actions[i].description =
                                     (IF "description" \in DOMAIN raw[i]
                                      THEN raw[i].description ELSE EmptyStr)

C28_Witness ==
    /\ llm_output = <<Json(PlanJson)>>
    /\ Len(parsed) = 1
    /\ parsed[1].actions[1].safety_level = "medium"
    /\ parsed[1].actions[1].arguments = EmptyMap
    /\ parsed[1].actions[2].safety_level = "high"

HasDangerousCommand(action) ==
    /\ action.tool = "execute_command"
    /\ \E k \in dangerous_keywords :
           IsSubstring(k, Get(action.arguments, "command", EmptyStr))

\* the rule of C21 for a plan p under the validator's configuration
SafeByRule(p) ==
    \/ p.actions = <<>>
    \/ /\ \A i \in 1..Len(p.actions) :
              /\ p.actions[i].tool \in allowed_actions
              /\ ~(p.actions[i].safety_level = "critical" /\ ~sandbox_enabled)
              /\ ~HasDangerousCommand(p.actions[i])
       /\ Len(p.actions) <= MAX_CONCURRENT_ACTIONS

\* C21: every call of validate leaves the validator's configuration as it
\* was, returns safe = true exactly when the plan has no actions, or every
\* tool is allow-listed, no action is critical while the sandbox is disabled,
\* no execute_command carries a dangerous pattern and there are at most
\* MAX_CONCURRENT_ACTIONS actions, and returns what the call before it
\* returned for the same plan.
C21_ValidateIsPure ==
    [][verdicts' # verdicts =>
          /\ allowed_actions' = allowed_actions
          /\ sandbox_enabled' = sandbox_enabled
          /\ checked_plan' = checked_plan
          /\ verdicts'[Len(verdicts')].safe = SafeByRule(checked_plan)
          /\ Len(verdicts) = 1 => verdicts'[2] = verdicts[1]]_vars

C21_Witness ==
    /\ Len(verdicts) = 2
    /\ Len(checked_plan.actions) = MAX_CONCURRENT_ACTIONS
    /\ verdicts[1].safe
    /\ verdicts[2] = verdicts[1]

\* C22, as stated: with the sandbox disabled, a plan that holds an
\* allow-listed critical action is rejected with a reason saying that the
\* critical action requires the sandbox.
C22_AsStated ==
    (/\ ~sandbox_enabled
     /\ HasPlan /\ HasVerdict
     /\ \E i \in 1..Len(plan.actions) :
            /\ plan.actions[i].tool \in allowed_actions
            /\ plan.actions[i].safety_level = "critical")
        => /\ ~validation_result.safe
           /\ IsSubstring(<<"r","e","q","u","i","r","e","s"," ","s","a","n","d","b","o","x">>,
                          validation_result.reason)

AllowedCritical ==
    {i \in 1..Len(plan.actions) :
        /\ plan.actions[i].tool \in allowed_actions
        /\ plan.actions[i].safety_level = "critical"}

\* C22, amended: with the sandbox disabled, a plan that holds an allow-listed
\* critical action is rejected and nothing is dispatched; the reason is
\* "Critical action '<tool>' requires sandbox" for the first such action
\* when every action before it is allow-listed and carries no dangerous
\* command; no critical action is ever dispatched while the sandbox is
\* disabled.
C22_CriticalNeedsSandbox ==
    /\ ~sandbox_enabled =>
           \A i \in 1..Len(exec_calls) : exec_calls[i].safety_level # "critical"
    /\ (~sandbox_enabled /\ HasPlan /\ HasVerdict /\ AllowedCritical # {}) =>
           /\ ~validation_result.safe
           /\ exec_calls = <<>>
           /\ Returned /\ response.status = "rejected"
           /\ (\A j \in 1..(Min(AllowedCritical) - 1) :
                   /\ plan.actions[j].tool \in allowed_actions
                   /\ ~HasDangerousCommand(plan.actions[j]))
                  => validation_result.reason =
                         ReasonNeedsSandbox(plan.actions[Min(AllowedCritical)].tool)

C22_Witness ==
    /\ ~sandbox_enabled
    /\ HasPlan /\ HasVerdict
    /\ Len(plan.actions) = 2
    /\ AllowedCritical = {2}
    /\ validation_result = [safe |-> FALSE, reason |-> ReasonNeedsSandbox("open_app")]
    /\ response.status = "rejected"

\* the group of the policy document an action type belongs to
PolicyGroup(type) ==
    CASE type = "system_action" -> "system_actions"
      [] type = "iot_action" -> "iot_actions"
      [] OTHER -> type

PolicyRequiresConfirmation(action) ==
    LET group == PolicyGroup(action.type) IN
    /\ group \in DOMAIN permission_rules
    /\ action.tool \in DOMAIN permission_rules[group]
    /\ permission_rules[group][action.tool].requires_confirmation

\* C23: for a plan validated as safe that has an action, requires_confirmation
\* is true exactly when some action is critical or the policy entry for its
\* type and tool says so.
C23_ConfirmationFollowsPolicy ==
    (HasPlan /\ HasVerdict /\ validation_result.safe /\ plan.actions # <<>>) =>
        /\ "requires_confirmation" \in DOMAIN validation_result
        /\ validation_result.requires_confirmation =
               \E i \in 1..Len(plan.actions) :
                   \/ plan.actions[i].safety_level = "critical"
                   \/ PolicyRequiresConfirmation(plan.actions[i])

\* C24: for a plan with intent "noop" and no actions the verdict is safe, no
\* action is dispatched, and the call returns status "success", no results
\* and the summary "Executed 0/0 actions successfully." after one memory
\* store call.
C24_EmptyPlan ==
    (HasPlan /\ plan.intent = "noop" /\ plan.actions = <<>>) =>
        /\ HasVerdict /\ validation_result.safe
        /\ exec_calls = <<>>
        /\ store_calls = 1
        /\ Returned =>
               /\ response.status = "success"
               /\ response.results = <<>>
               /\ response.summary =
                      <<"Executed ", "0", "/", "0", " actions successfully.">>

C24_Witness ==
    /\ HasPlan /\ plan.intent = "noop"
    /\ Returned
    /\ response.status = "success"
    /\ response.results = <<>>
    /\ store_calls = 1

Count(seq, x) == Cardinality({i \in 1..Len(seq) : seq[i] = x})

\* C29: every frame sent on the connection carries the request_id of a
\* request received on it before, and no request_id is answered more often
\* than it was received.
C29_OutboundIdsWereReceived ==
    /\ Len(outbound) <= Len(inbound)
    /\ \A i \in 1..Len(outbound) :
           /\ Count(inbound, outbound[i]) >= 1
           /\ Count(outbound, outbound[i]) <= Count(inbound, outbound[i])

C29_Witness ==
    /\ inbound = <<"req-2", "req-1">>
    /\ outbound = <<"req-2", "req-1">>

\* pipeline invocations of the connection that have not returned yet
InFlight == IF via = "ws" /\ pc \in AwaitedStages THEN 1 ELSE 0

\* C30: at most MAX_CONCURRENT_ACTIONS invocations of a connection are in
\* flight, and while fewer are in flight the next frame of the connection is
\* read, so that several requests can be in flight at the same time.
C30_UpToKInFlight ==
    /\ InFlight <= MAX_CONCURRENT_ACTIONS
    /\ (/\ ws = "connected"
        /\ served < MaxRequests
        /\ InFlight >= 1
        /\ InFlight < MAX_CONCURRENT_ACTIONS)
           => ENABLED (\E frame \in WsFrames : ReceiveFrame(frame))

StartsIn(l, stage) == {i \in 1..Len(l) : l[i] = Ev(stage, "start")}

\* C31: once the client has closed the connection (or its transport has
\* failed) during a call, no LLM call, no action-exec call and no memory
\* store is started for that connection.
C31_NoCallAfterClose ==
    [][ws = "peer_closed" =>
          \A stage \in {"generate", "execute", "store"} :
              Cardinality(StartsIn(log', stage)) <= Cardinality(StartsIn(log, stage))]_vars

\* the connections a broadcast has sent to with the given outcome
SentTo(sends, ok) ==
    {sends[i].connection : i \in {j \in 1..Len(sends) : sends[j].ok = ok}}

BroadcastReturns == bc_pc = "sending" /\ bc_pc' = "returned"

\* C32 as stated: when broadcast returns, every connection whose send failed
\* is absent from active_connections and every connection whose send
\* succeeded is present; when send_personal_message returns, the connection
\* is absent if the send failed and present if it succeeded; a disconnect of
\* a connection that is absent changes nothing.
C32_AsStated ==
    [][/\ BroadcastReturns =>
              /\ \A c \in SentTo(bc_sends', FALSE) : ~InList(active_connections', c)
              /\ \A c \in SentTo(bc_sends', TRUE) : InList(active_connections', c)
       /\ \A c \in Sockets :
              /\ PersonalSend(c, FALSE) => ~InList(active_connections', c)
              /\ endpoints'[c] = "connected" => InList(active_connections', c)
              /\ (EndpointDisconnect(c) /\ ~InList(active_connections, c))
                     => active_connections' = active_connections]_vars

\* C32 (amended): as C32_AsStated, except that a connection whose broadcast
\* send succeeded may be absent when its own endpoint has disconnected it
\* while the broadcast was suspended.  A socket whose endpoint can still
\* complete a send is in the list in every state, so that it is present when
\* a successful send_personal_message returns.
C32_FailedSendsReaped ==
    [][/\ BroadcastReturns =>
              /\ \A c \in SentTo(bc_sends', FALSE) : ~InList(active_connections', c)
              /\ \A c \in SentTo(bc_sends', TRUE) :
                     InList(active_connections', c) \/ c \in bc_left'
       /\ \A c \in Sockets :
              /\ PersonalSend(c, FALSE) => ~InList(active_connections', c)
              /\ endpoints'[c] = "connected" => InList(active_connections', c)
              /\ (EndpointDisconnect(c) /\ ~InList(active_connections, c))
                     => active_connections' = active_connections]_vars

\* a broadcast has returned after a send that failed and a send that
\* succeeded, and the endpoint of a reaped connection has called disconnect
\* once more
C32_Witness ==
    /\ bc_pc = "returned"
    /\ SentTo(bc_sends, TRUE) \cap {c \in Sockets : InList(active_connections, c)} # {}
    /\ \E c \in SentTo(bc_sends, FALSE) : endpoints[c] = "closed"

Happened(e) == \E i \in 1..Len(lifecycle) : lifecycle[i] = e
Before(a, b) ==
    \E i, j \in 1..Len(lifecycle) : i < j /\ lifecycle[i] = a /\ lifecycle[j] = b

\* C33: the steps of startup come in the order load config, open LLM
\* client, open memory client, open action client, load policy, mark ready:
\* each step that has been taken was taken after the one before it, so the
\* policy is loaded after the three clients are open and the orchestrator is
\* ready (initialized) after the policy is loaded.
C33_StartupOrder ==
    /\ Happened("open_llm") => Before("load_config", "open_llm")
    /\ Happened("open_memory") => Before("open_llm", "open_memory")
    /\ Happened("open_action") => Before("open_memory", "open_action")
    /\ Happened("load_policy") => Before("open_action", "load_policy")
    /\ Happened("ready") => Before("load_policy", "ready")
    /\ initialized => Happened("ready")

\* C34: shutdown closes the action client, then the memory client, then the
\* LLM client, and closes no client while a call of process_request is in
\* flight, so that no call in flight meets a closed client.
C34_ReverseOrderShutdown ==
    /\ Happened("close_memory") => Before("close_action", "close_memory")
    /\ Happened("close_llm") => Before("close_memory", "close_llm")
    /\ "closed" \in {llm_session, memory_session, action_session}
           => pc \notin AwaitedStages

\* C39: while initialized is true the three clients have an open session,
\* and a call of process_request awaits a collaborator only after
\* initialize has completed and before shutdown has begun.
C39_ReadyImpliesOpen ==
    /\ initialized =>
           /\ llm_session = "open"
           /\ memory_session = "open"
           /\ action_session = "open"
    /\ pc \in AwaitedStages =>
           /\ Happened("ready")
           /\ \A e \in {"close_llm", "close_memory", "close_action"} : ~Happened(e)

\* the answer holds a first documents list, and either no metadatas at all
\* or a first metadatas list with one entry per document
WellFormedAnswer(data) ==
    /\ "documents" \in DOMAIN data
    /\ Len(data.documents) > 0
    /\ "metadatas" \in DOMAIN data =>
           /\ Len(data.metadatas) > 0
           /\ Len(data.metadatas[1]) = Len(data.documents[1])

\* C35: for such an answer search returns one hit per document of the first
\* documents list, in order, the i-th hit holding the i-th document and the
\* i-th metadata, or the empty map when the answer has no metadatas.
C35_OneHitPerDocument ==
    (search_result # NoValue /\ WellFormedAnswer(search_data)) =>
        LET docs == search_data.documents[1] IN
        /\ "returned" \in DOMAIN search_result
        /\ Len(search_result.returned) = Len(docs)
        /\ \A i \in 1..Len(docs) :
               /\ search_result.returned[i].content = docs[i]
               /\ search_result.returned[i].metadata =
                      IF "metadatas" \in DOMAIN search_data
                      THEN search_data.metadatas[1][i]
                      ELSE EmptyMap

\* C36: when a broadcast returns, every connection that was in
\* active_connections when it was called and was removed by no endpoint
\* before its loop ended has been sent to exactly once, and no connection
\* has been sent to twice.
C36_ExactlyOneSend ==
    bc_pc = "returned" =>
        /\ \A c \in Sockets :
               (InList(bc_start, c) /\ c \notin bc_left)
                   => Cardinality({i \in 1..Len(bc_sends) : bc_sends[i].connection = c}) = 1
        /\ \A c \in Sockets :
               Cardinality({i \in 1..Len(bc_sends) : bc_sends[i].connection = c}) <= 1

\* the rules of validate for one action, in the order of C37, and the
\* reason of the first one the action fails (<<>> when it fails none)
FirstRuleFailed(action) ==
    IF action.tool \notin allowed_actions
    THEN ReasonNotAllowed(action.tool)
    ELSE IF action.safety_level = "critical" /\ ~sandbox_enabled
    THEN ReasonNeedsSandbox(action.tool)
    ELSE IF HasDangerousCommand(action)
    THEN ReasonDangerous(action.arguments.command)
    ELSE <<>>

C38_ConfirmationNeverGates ==
    /\ (HasVerdict /\ validation_result.safe) =>
           /\ exec_calls = SubSeq(plan.actions, 1, Len(exec_calls))
           /\ Len(exec_calls) = IF pc = "execute" THEN Len(results) + 1 ELSE Len(results)
           /\ pc # "execute" =>
                  \/ Len(results) = Len(plan.actions)
                  \/ /\ Len(results) > 0
                     /\ StopsExecution(results[Len(results)])
    /\ \A i \in 1..Len(log) :
           log[i] = Ev("validate", "safe") =>
               /\ i < Len(log)
               /\ log[i + 1] \in {Ev("execute", "start"), Ev("store", "start")}
    /\ \A p, q \in ConfirmPlans :
           p.actions = q.actions =>
               Rejected(validate(ExecutionPlan(p))) = Rejected(validate(ExecutionPlan(q)))

\* a plan with requires_confirmation true, whose verdict has
\* requires_confirmation true as well, has had both its actions dispatched
C38_Witness ==
    /\ HasVerdict
    /\ HasPlan
    /\ validation_result.safe
    /\ Get(validation_result, "requires_confirmation", FALSE)
    /\ plan.requires_confirmation
    /\ Len(exec_calls) = 2
    /\ pc = "respond"

====
